---- MODULE Spec2Model ----
(***************************************************************************)
(* A model of src/vortex_ole_payload.py: class OLE_TemporalVortex.          *)
(*                                                                         *)
(* Reading of the source.  Lines 94-97 end in "// ..." trailers, which      *)
(* Python rejects (the file does not compile as shipped).  The model reads  *)
(* them as the end-of-line comments they are written to be, so that the     *)
(* ten 32-bit header fields are the ten expressions of lines 88-97.         *)
(*                                                                         *)
(* Numbers.  Python floats are modelled by fixed-point decimals: a Fix is   *)
(* a tuple <<n, d1, d2, d3, d4>> standing for n + d1/10^4 + d2/10^8 +       *)
(* d3/10^12 + d4/10^16, every d in 0..9999.  All products stay below 2^31.  *)
(* Byte sequences are sequences of integers in 0..255.  A sequence that     *)
(* models a Python list or bytes object is 1-based: Python index i is       *)
(* index i + 1 here.                                                       *)
(***************************************************************************)
EXTENDS Integers, Sequences, FiniteSets, TLC

VARIABLES
    now,                \* the wall clock, in microseconds
    o_layer,            \* object harness: the layer index under test
    o_header,           \* object harness: result of generate_vortex_ole_header
    o_objs,             \* object harness: results of create_temporal_ole_object
    pc,                 \* build_sovereign_document: position of the driver
    layer,              \* build_sovereign_document: loop variable
    document_metadata,  \* build_sovereign_document: local dict
    ole_metadata,       \* build_sovereign_document: local, last object created
    total_energy,       \* build_sovereign_document: local accumulator
    archive,            \* entries written so far to the zip file, in order
    io_error,           \* the exception raised by the zip layer, or NoError
    result,             \* what build_sovereign_document returned
    raised,             \* the exception that left build_sovereign_document
    create_calls        \* history: calls of create_temporal_ole_object per layer

vars == <<now, o_layer, o_header, o_objs, pc, layer, document_metadata,
          ole_metadata, total_energy, archive, io_error, result, raised,
          create_calls>>

-----------------------------------------------------------------------------
(* Bounds of the exploration *)

\* microseconds the clock may advance during one behaviour
MaxElapsed == 1
\* the driver's cascade is explored for its first MaxRunLayers layers
MaxRunLayers == 6

(* Program constants *)

layers == 33
base_size == 1024
UsPerSec == 1000000

\* self.alpha = 0.0302011
alpha == <<0, 302, 110, 0, 0>>
prime_windows == <<10007, 10009, 10037, 10039, 10061, 10067, 10069, 10079>>
clsid_vortex == "{DEADC0DE-CAFE-BABE-0000-000000000033}"
progid_prefix == "SCTT.Vortex"

-----------------------------------------------------------------------------
(* Fixed-point arithmetic standing for float64 *)

FixBase == 100 * 100
Zero == <<0, 0, 0, 0, 0>>
One == <<1, 0, 0, 0, 0>>

FixAdd(a, b) ==
    LET t5 == a[5] + b[5]
        t4 == a[4] + b[4] + (t5 \div FixBase)
        t3 == a[3] + b[3] + (t4 \div FixBase)
        t2 == a[2] + b[2] + (t3 \div FixBase)
        t1 == a[1] + b[1] + (t2 \div FixBase)
    IN  <<t1, t2 % FixBase, t3 % FixBase, t4 % FixBase, t5 % FixBase>>

\* a - b, for a >= b
FixSub(a, b) ==
    LET t5 == a[5] - b[5]
        t4 == a[4] - b[4] + (t5 \div FixBase)
        t3 == a[3] - b[3] + (t4 \div FixBase)
        t2 == a[2] - b[2] + (t3 \div FixBase)
        t1 == a[1] - b[1] + (t2 \div FixBase)
    IN  <<t1, t2 % FixBase, t3 % FixBase, t4 % FixBase, t5 % FixBase>>

FixMul(a, b) ==
    LET c10 == a[5]*b[5]
        c9 == a[4]*b[5] + a[5]*b[4]
        c8 == a[3]*b[5] + a[4]*b[4] + a[5]*b[3]
        c7 == a[2]*b[5] + a[3]*b[4] + a[4]*b[3] + a[5]*b[2]
        c6 == a[1]*b[5] + a[2]*b[4] + a[3]*b[3] + a[4]*b[2] + a[5]*b[1]
        c5 == a[1]*b[4] + a[2]*b[3] + a[3]*b[2] + a[4]*b[1]
        c4 == a[1]*b[3] + a[2]*b[2] + a[3]*b[1]
        c3 == a[1]*b[2] + a[2]*b[1]
        c2 == a[1]*b[1]
        k10 == c10 \div FixBase
        k9 == (c9 + k10) \div FixBase
        k8 == (c8 + k9) \div FixBase
        k7 == (c7 + k8) \div FixBase
        t6 == c6 + k7
        t5 == c5 + (t6 \div FixBase)
        t4 == c4 + (t5 \div FixBase)
        t3 == c3 + (t4 \div FixBase)
        t2 == c2 + (t3 \div FixBase)
    IN  <<t2, t3 % FixBase, t4 % FixBase, t5 % FixBase, t6 % FixBase>>

\* a * m for an integer m
FixScale(a, m) ==
    LET t5 == a[5]*m
        t4 == a[4]*m + (t5 \div FixBase)
        t3 == a[3]*m + (t4 \div FixBase)
        t2 == a[2]*m + (t3 \div FixBase)
        t1 == a[1]*m + (t2 \div FixBase)
    IN  <<t1, t2 % FixBase, t3 % FixBase, t4 % FixBase, t5 % FixBase>>

\* a / d for an integer d
FixDiv(a, d) ==
    LET n2 == (a[1] % d)*FixBase + a[2]
        n3 == (n2 % d)*FixBase + a[3]
        n4 == (n3 % d)*FixBase + a[4]
        n5 == (n4 % d)*FixBase + a[5]
    IN  <<a[1] \div d, n2 \div d, n3 \div d, n4 \div d, n5 \div d>>

\* Python's int() on a non-negative float
FixInt(a) == a[1]

\* exp(-y) for a small y >= 0, by its power series
RECURSIVE ExpSeries(_, _, _, _, _)
ExpSeries(y, term, n, plus, minus) ==
    IF term = Zero THEN FixSub(plus, minus)
    ELSE ExpSeries(y, FixDiv(FixMul(term, y), n + 1), n + 1,
                   IF n % 2 = 0 THEN FixAdd(plus, term) ELSE plus,
                   IF n % 2 = 1 THEN FixAdd(minus, term) ELSE minus)

RECURSIVE Squarings(_, _)
Squarings(s, n) ==
    IF n = 0 THEN s
    ELSE Squarings(Append(s, FixMul(s[Len(s)], s[Len(s)])), n - 1)

\* ExpPowers[j] = exp(-alpha * 2^(j-1) / 100)
ExpPowers ==
    Squarings(<<ExpSeries(FixDiv(alpha, 100), One, 0, Zero, Zero)>>, 12)

RECURSIVE ExpBits(_, _)
ExpBits(h, j) ==
    IF h = 0 THEN One
    ELSE IF h % 2 = 1 THEN FixMul(ExpPowers[j], ExpBits(h \div 2, j + 1))
    ELSE ExpBits(h \div 2, j + 1)

\* <<exp(0), exp(-alpha*step/100), ..., exp(-alpha*step*n/100)>>
RECURSIVE ExpTable(_, _, _)
ExpTable(s, step, n) ==
    IF Len(s) > n THEN s
    ELSE ExpTable(Append(s, ExpBits(step * Len(s), 1)), step, n)

\* exp(-alpha * u) for whole u, and exp(-alpha * c / 100) for c in 0..99
ExpUnits == ExpTable(<<>>, 100, layers + base_size \div 100)
ExpHundredths == ExpTable(<<>>, 1, 99)

\* np.exp(-self.alpha * x) for x = h/100, h a non-negative integer
exp_neg_alpha(h) ==
    FixMul(ExpUnits[(h \div 100) + 1], ExpHundredths[(h % 100) + 1])

\* int(self.alpha * 1e6)
alpha_micro == FixInt(FixScale(alpha, 1000 * 1000))

-----------------------------------------------------------------------------
(* Bytes *)

RECURSIVE XorBits(_, _)
XorBits(a, b) ==
    IF a = 0 /\ b = 0 THEN 0
    ELSE ((a + b) % 2) + 2 * XorBits(a \div 2, b \div 2)

XorNibble == [a \in 0..15 |-> [b \in 0..15 |-> XorBits(a, b)]]

\* a ^ b on bytes
Xor(a, b) == XorNibble[a % 16][b % 16] + 16 * XorNibble[a \div 16][b \div 16]

\* struct.pack('<H', v)
LE16(v) == <<v % 256, v \div 256>>

\* a 32-bit value is kept as <<high word, low word>>
Word32(v) == <<v \div 65536, v % 65536>>

\* struct.pack('<I', w)
LE32(w) == LE16(w[2]) \o LE16(w[1])

RECURSIVE Flatten(_)
Flatten(ss) == IF ss = <<>> THEN <<>> ELSE Head(ss) \o Flatten(Tail(ss))

\* hashlib.sha256(b).hexdigest(): an ideal (collision-free) digest, kept as
\* the term sha256(b)
sha256(b) == [algorithm |-> "SHA256", of |-> b]

-----------------------------------------------------------------------------
(* OLE_TemporalVortex *)

\* the clock when a behaviour starts: one microsecond before a full second
Epoch == UsPerSec - 1
ClockEnd == Epoch + MaxElapsed

\* np.exp(-self.alpha * layer)
layer_energy_of(lyr) == exp_neg_alpha(100 * lyr)

\* self.cascade_factor, kept as the quotient num / den
cascade_factor == [num |-> FixSub(One, layer_energy_of(layers)), den |-> alpha]

\* self.prime_windows[layer % len(self.prime_windows)]
prime_window(lyr) == prime_windows[(lyr % Len(prime_windows)) + 1]

\* The float returned is base_offset * (1e7 + 5e5 * prime_phase), with
\* base_offset = exp(-alpha*layer) * (1 + alpha*sin(2*pi*layer/layers)) for
\* layer > 0 and exp(-alpha*layer) for layer 0, and prime_phase =
\* (current_us % prime) / prime.  The product is not evaluated: its
\* operands are kept.  For a given layer the float is strictly increasing in
\* phase_us, so two offsets of a layer are equal iff their terms are.
calculate_ole_temporal_offset(lyr, current_us) ==
    [decay |-> layer_energy_of(lyr),
     resonant |-> lyr > 0,
     prime |-> prime_window(lyr),
     phase_us |-> current_us % prime_window(lyr)]

OLE2Signature == <<208, 207, 17, 224, 161, 177, 26, 225>>
CLSIDBytes == <<51, 0, 0, 0, 222, 173, 192, 222, 202, 254, 186, 190, 0, 0, 0, 0>>
VersionFields == <<62, 3, 65534, 9>>

\* int(4096 * np.exp(-self.alpha * layer))
total_sectors_of(lyr) == FixInt(FixScale(layer_energy_of(lyr), 4096))

\* the ten arguments of struct.pack('<IIIIIIIIII', ...), in order
sector_arguments(total_sectors, lyr) ==
    <<Word32(total_sectors),
      Word32(0),
      Word32(0),
      Word32(4096),
      <<65535, 65534>>,
      <<65535, 65535>>,
      Word32(4096),
      Word32(total_sectors \div 2),
      Word32(lyr),
      Word32(alpha_micro)>>

\* variant: the half-life sectors are packed after the layer
sector_fields_layer_first(lyr) ==
    [sector_arguments(total_sectors_of(lyr), lyr) EXCEPT
        ![8] = Word32(lyr), ![9] = Word32(total_sectors_of(lyr) \div 2)]

\* lines 86-98: total_sectors and the arguments packed
sector_fields(lyr) == sector_arguments(total_sectors_of(lyr), lyr)

\* header.extend(...) of lines 70, 73, 78 and 87, for the given 32-bit fields
header_bytes(fields) ==
    OLE2Signature
    \o CLSIDBytes
    \o Flatten([n \in 1..Len(VersionFields) |-> LE16(VersionFields[n])])
    \o Flatten([n \in 1..Len(fields) |-> LE32(fields[n])])

\* variant: the last 32-bit field is not packed
generate_vortex_ole_header_nine_fields(lyr) ==
    header_bytes(SubSeq(sector_fields(lyr), 1, 9))

generate_vortex_ole_header(lyr) == header_bytes(sector_fields(lyr))

\* int(base_size * np.exp(-self.alpha * layer))
object_size_of(lyr) == FixInt(FixScale(layer_energy_of(lyr), base_size))

\* one pass of the loop body for index i, given ole_data so far
final_byte(lyr, i, ole_data) ==
    LET energy == exp_neg_alpha(100 * lyr + i)
        base_byte == FixInt(FixScale(energy, 255)) % 256
        turbulence == IF i > 0 THEN Xor(ole_data[i], base_byte) % 256
                      ELSE base_byte
        pattern == IF (lyr + i) % 2 = 0 THEN 170 ELSE 85
    IN  Xor(turbulence, pattern)

\* for i in range(first, last): ... ole_data.append(final_byte)
\* (iterations first..mid-1, then iterations mid..last-1)
RECURSIVE data_section(_, _, _, _)
data_section(ole_data, lyr, first, last) ==
    IF first >= last THEN ole_data
    ELSE IF last = first + 1
         THEN Append(ole_data, final_byte(lyr, first, ole_data))
    ELSE LET mid == (first + last) \div 2
             half == data_section(ole_data, lyr, first, mid)
         IN  \* the test makes TLC finish the first half before the second
             IF Len(half) > 0 THEN data_section(half, lyr, mid, last) ELSE half

\* ole_data when create_temporal_ole_object reaches line 151
ole_data_at_151 ==
    [lyr \in 0..(layers - 1) |->
        data_section(generate_vortex_ole_header(lyr), lyr, 0, object_size_of(lyr))]

\* variant: the loop fills a buffer of its own, without the header
ole_data_of_loop_only(lyr) ==
    SubSeq(ole_data_at_151[lyr], Len(generate_vortex_ole_header(lyr)) + 1,
           Len(ole_data_at_151[lyr]))

ole_data_of(lyr) == ole_data_at_151[lyr]

\* variant: the digest is taken over the bytes after the header
checksum_of_after_header(ole_data) ==
    sha256(SubSeq(ole_data, 8 + 16 + 4 * 2 + 10 * 4 + 1, Len(ole_data)))

\* hashlib.sha256(ole_data).hexdigest()
checksum_of(ole_data) == sha256(ole_data)

\* lines 107-123 and 151-152: the dict returned, given ole_data
ole_object(lyr, ole_data, t_us, t_dt) ==
    [clsid |-> clsid_vortex,
     progid |-> <<progid_prefix, "Layer", lyr, "Alpha", alpha_micro>>,
     size |-> object_size_of(lyr),
     temporal_offset |-> calculate_ole_temporal_offset(lyr, t_us),
     energy_level |-> layer_energy_of(lyr),
     layer |-> lyr,
     alpha |-> alpha,
     timestamp |-> t_dt \div UsPerSec,
     data |-> ole_data,
     checksum |-> checksum_of(ole_data)]

\* ole_data with the clock's prime phase mixed into its last byte
clocked_bytes(ole_data, lyr, t_us) ==
    [ole_data EXCEPT ![Len(ole_data)] = Xor(@, (t_us % prime_window(lyr)) % 256)]

\* variant: the synthesized bytes depend on the clock
create_temporal_ole_object_clocked(lyr, t_us, t_dt) ==
    ole_object(lyr, clocked_bytes(ole_data_of(lyr), lyr, t_us), t_us, t_dt)

\* variant: every object is the object of layer 0
create_temporal_ole_object_first_layer(lyr, t_us, t_dt) ==
    ole_object(0, ole_data_of(0), t_us, t_dt)

\* t_us is the clock read by time.time(), t_dt the one read by datetime.now()
create_temporal_ole_object(lyr, t_us, t_dt) ==
    ole_object(lyr, ole_data_of(lyr), t_us, t_dt)

-----------------------------------------------------------------------------
(* Callers of the object's methods on one layer *)

MaxCalls == 2
\* no exception; no value returned yet
NoError == [type |-> "none", message |-> ""]
NoResult == [status |-> "running"]
Idle == "idle"

DriverIdle ==
    /\ pc = Idle
    /\ layer = 0
    /\ document_metadata = <<>>
    /\ ole_metadata = <<>>
    /\ total_energy = Zero
    /\ archive = <<>>
    /\ io_error = NoError
    /\ result = NoResult
    /\ raised = NoError
    /\ create_calls = <<>>

driver_vars == <<pc, layer, document_metadata, ole_metadata, total_energy,
                 archive, io_error, result, raised, create_calls>>

InitObject ==
    /\ now = Epoch
    /\ o_layer \in 0..(layers - 1)
    /\ o_header = <<>>
    /\ o_objs = <<>>
    /\ DriverIdle

CallHeader ==
    /\ o_layer >= 0
    /\ o_header = <<>>
    /\ o_header' = generate_vortex_ole_header(o_layer)
    /\ UNCHANGED <<now, o_layer, o_objs, driver_vars>>

CallCreate ==
    /\ o_layer >= 0
    /\ Len(o_objs) < MaxCalls
    /\ \E t_us \in now..ClockEnd : \E t_dt \in t_us..ClockEnd :
          /\ o_objs' = Append(o_objs, create_temporal_ole_object(o_layer, t_us, t_dt))
          /\ now' = t_dt
    /\ UNCHANGED <<o_layer, o_header, driver_vars>>

NextObject == CallHeader \/ CallCreate

SpecObject == InitObject /\ [][NextObject]_vars

-----------------------------------------------------------------------------
(* Text rendering *)

\* f"{x:.6f}" and the like: the rendered text is kept as the term
\* format(spec, x), not evaluated
format_float(spec, x) == [format |-> spec, value |-> x]

\* lines 164-188: the element tree built from ole_object, kept as a record
\* of the attributes set on it
xml_tree(obj, lyr) ==
    [progID |-> obj.progid,
     clsid |-> obj.clsid,
     size |-> obj.size,
     temporalLayer |-> lyr,
     alpha |-> alpha,
     energy |-> format_float(".6f", obj.energy_level),
     cascadeFactor |-> format_float(".6f", cascade_factor),
     timestamp |-> obj.timestamp,
     theorem_value |-> format_float(".10f", obj.energy_level),
     offset |-> format_float(".6f", obj.temporal_offset),
     primeWindow |-> prime_window(lyr),
     checksum |-> obj.checksum]

\* t_us and t_dt are the clock reads of the create_temporal_ole_object call
\* of line 161
generate_vortex_xml(lyr, t_us, t_dt) ==
    xml_tree(create_temporal_ole_object(lyr, t_us, t_dt), lyr)

\* metadata.get(key, default)
dict_get(d, key, default) == IF key \in DOMAIN d THEN d[key] ELSE default

SelectLayers(n) == {l \in 0..(n - 1) : l % 5 = 0}

\* lines 388-391: the line of every fifth layer
manifest_layer_lines(objs) ==
    [l \in SelectLayers(Len(objs)) |->
        [energy |-> format_float(".4f", objs[l + 1].energy_level),
         size |-> objs[l + 1].size,
         offset |-> format_float(".2f", objs[l + 1].temporal_offset)]]

\* _generate_vortex_manifest: the lines that depend on metadata
generate_vortex_manifest(metadata) ==
    [document |-> metadata.filename,
     generated |-> metadata.creation_time,
     completed |-> dict_get(metadata, "completion_time", "N/A"),
     version |-> metadata.ctt_version,
     total_energy |-> format_float(".6f", dict_get(metadata, "total_energy", Zero)),
     efficiency |-> format_float(".1f", dict_get(metadata, "efficiency", Zero)),
     layer_lines |-> manifest_layer_lines(dict_get(metadata, "ole_objects", <<>>))]

-----------------------------------------------------------------------------
(* build_sovereign_document *)

\* range(self.layers), cut to the layers explored
RunLayers == IF layers < MaxRunLayers THEN layers ELSE MaxRunLayers

filename == "SCTT_Sovereign_Manifest.docx"

\* the exceptions the zip layer can raise
IOFaults == {[type |-> "OSError", message |-> "write failed"]}

\* str(e)
str_of(e) == e.message

\* variant: no except clause, the exception leaves the method
except_handler_absent(e) == [result |-> NoResult, raised |-> e]

\* except Exception as e: print(...); return {'error': str(e)}
except_handler(e) == [result |-> [error |-> str_of(e)], raised |-> NoError]

\* the four writestr calls of lines 232-238, in order
Boilerplate ==
    <<[name |-> <<"[Content_Types].xml">>, content |-> "content_types"],
      [name |-> <<"_rels/.rels">>, content |-> "relationships"],
      [name |-> <<"word/_rels/document.xml.rels">>,
       content |-> [l \in 0..(layers - 1) |-> <<"rId", l + 100>>]],
      [name |-> <<"word/document.xml">>,
       content |-> [l \in 0..(layers - 1) |->
                      format_float(".6f", layer_energy_of(l))]]>>

xml_entry_name(lyr) == <<"word/embeddings/oleObject", lyr, ".xml">>
bin_entry_name(lyr) == <<"word/embeddings/oleObject", lyr, ".bin">>
manifest_entry_name == <<"CTT_VORTEX_MANIFEST.txt">>

ObjectIdle ==
    /\ o_layer = -1
    /\ o_header = <<>>
    /\ o_objs = <<>>

object_vars == <<o_layer, o_header, o_objs>>

Init ==
    /\ now = Epoch
    /\ ObjectIdle
    /\ pc = "start"
    /\ layer = 0
    /\ document_metadata = <<>>
    /\ ole_metadata = <<>>
    /\ total_energy = Zero
    /\ archive = <<>>
    /\ io_error = NoError
    /\ result = NoResult
    /\ raised = NoError
    /\ create_calls = [l \in 0..(RunLayers - 1) |-> 0]

\* an exception e leaves the with block and reaches the except clause
Caught(e) ==
    /\ io_error' = e
    /\ result' = except_handler(e).result
    /\ raised' = except_handler(e).raised
    /\ pc' = "returned"

\* docx.writestr(name, content): the entry is written, or the call raises
WriteStr(name, content, next_pc) ==
    \/ /\ archive' = Append(archive, [name |-> name, content |-> content])
       /\ pc' = next_pc
       /\ UNCHANGED <<io_error, result, raised>>
    \/ /\ \E e \in IOFaults : Caught(e)
       /\ UNCHANGED archive

\* lines 217-225
BuildStart ==
    /\ pc = "start"
    /\ \E t \in now..ClockEnd :
          /\ now' = t
          /\ document_metadata' =
                [filename |-> filename,
                 creation_time |-> t,
                 ctt_version |-> "2026-33-0007",
                 alpha |-> alpha,
                 layers |-> layers,
                 cascade_factor |-> cascade_factor,
                 ole_objects |-> <<>>]
    /\ pc' = "open"
    /\ UNCHANGED <<object_vars, layer, ole_metadata, total_energy, archive,
                   io_error, result, raised, create_calls>>

\* line 228: zipfile.ZipFile(self.filename, 'w', ...)
OpenArchive ==
    /\ pc = "open"
    /\ \/ /\ archive' = <<>>
          /\ pc' = "boilerplate"
          /\ UNCHANGED <<io_error, result, raised>>
       \/ /\ \E e \in IOFaults : Caught(e)
          /\ UNCHANGED archive
    /\ UNCHANGED <<now, object_vars, layer, document_metadata, ole_metadata,
                   total_energy, create_calls>>

\* lines 232-238, one writestr at a time; line 243 after the last
WriteBoilerplate ==
    /\ pc = "boilerplate"
    /\ LET n == Len(archive) + 1 IN
          WriteStr(Boilerplate[n].name, Boilerplate[n].content,
                   IF n < Len(Boilerplate) THEN "boilerplate"
                   ELSE IF 0 < RunLayers THEN "layer_object" ELSE "manifest")
    /\ UNCHANGED <<now, object_vars, layer, document_metadata, ole_metadata,
                   total_energy, create_calls>>

\* lines 246-251
LayerObject ==
    /\ pc = "layer_object"
    /\ total_energy' = FixAdd(total_energy, layer_energy_of(layer))
    /\ \E t_us \in now..ClockEnd : \E t_dt \in t_us..ClockEnd :
          /\ ole_metadata' = create_temporal_ole_object(layer, t_us, t_dt)
          /\ now' = t_dt
    /\ document_metadata' =
          [document_metadata EXCEPT !.ole_objects = Append(@, ole_metadata')]
    /\ create_calls' = [create_calls EXCEPT ![layer] = @ + 1]
    /\ pc' = "layer_xml"
    /\ UNCHANGED <<object_vars, layer, archive, io_error, result, raised>>

\* lines 254-255
LayerXml ==
    /\ pc = "layer_xml"
    /\ \E t_us \in now..ClockEnd : \E t_dt \in t_us..ClockEnd :
          /\ now' = t_dt
          /\ WriteStr(xml_entry_name(layer),
                      generate_vortex_xml(layer, t_us, t_dt), "layer_bin")
    /\ create_calls' = [create_calls EXCEPT ![layer] = @ + 1]
    /\ UNCHANGED <<object_vars, layer, document_metadata, ole_metadata,
                   total_energy>>

\* lines 258-260, and the loop's step
LayerBin ==
    /\ pc = "layer_bin"
    /\ IF "data" \in DOMAIN ole_metadata
       THEN WriteStr(bin_entry_name(layer), ole_metadata.data,
                     IF layer + 1 < RunLayers THEN "layer_object" ELSE "manifest")
       ELSE /\ pc' = IF layer + 1 < RunLayers THEN "layer_object" ELSE "manifest"
            /\ UNCHANGED <<archive, io_error, result, raised>>
    /\ layer' = IF pc' = "returned" THEN layer ELSE layer + 1
    /\ UNCHANGED <<now, object_vars, document_metadata, ole_metadata,
                   total_energy, create_calls>>

\* line 270
WriteManifest ==
    /\ pc = "manifest"
    /\ WriteStr(manifest_entry_name,
                generate_vortex_manifest(document_metadata), "finalize")
    /\ UNCHANGED <<now, object_vars, layer, document_metadata, ole_metadata,
                   total_energy, create_calls>>

\* (total_energy / theoretical_energy) * 100, kept as the quotient
efficiency_of(total, theoretical) ==
    [num |-> FixScale(total, 100), den |-> theoretical]

\* lines 273-290, and the close of the archive when the with block is left
Finalize ==
    /\ pc = "finalize"
    /\ \E t \in now..ClockEnd :
          /\ now' = t
          /\ document_metadata' =
                document_metadata @@
                [total_energy |-> total_energy,
                 efficiency |-> efficiency_of(total_energy, cascade_factor),
                 completion_time |-> t]
    /\ \/ /\ result' = document_metadata'
          /\ pc' = "returned"
          /\ UNCHANGED <<io_error, raised>>
       \/ \E e \in IOFaults : Caught(e)
    /\ UNCHANGED <<object_vars, layer, ole_metadata, total_energy, archive,
                   create_calls>>

Next ==
    \/ BuildStart
    \/ OpenArchive
    \/ WriteBoilerplate
    \/ LayerObject
    \/ LayerXml
    \/ LayerBin
    \/ WriteManifest
    \/ Finalize

Spec == Init /\ [][Next]_vars

\* the method runs to its return: a statement that can execute does
FairSpec == Spec /\ WF_vars(Next)

-----------------------------------------------------------------------------
(* Properties of the object's methods (checked under SpecObject) *)

Objects == {o_objs[k] : k \in 1..Len(o_objs)}

\* the signature, the identifier, four 16-bit and ten 32-bit fields
HeaderBytes == 8 + 16 + 4 * 2 + 10 * 4

\* the bytes the loop of lines 132-149 appended: position p is at p + 1
payload_of(obj) == SubSeq(obj.data, HeaderBytes + 1, Len(obj.data))

\* floor(255 * exp(-alpha * (layer_index + p/100))) mod 256
rule_raw(lyr, p) == FixInt(FixScale(exp_neg_alpha(100 * lyr + p), 255)) % 256

\* 0xAA when layer_index + p is even, 0x55 otherwise
rule_mask(lyr, p) == IF (lyr + p) % 2 = 0 THEN 170 ELSE 85

\* C1 (as claimed): every synthesized byte at position p > 0 is
\* raw(p) XOR output[p-1] XOR mask(p), output[p-1] being the payload byte
\* synthesized just before it; the byte at position 0 is raw(0) XOR mask(0).
C1_FeedbackFromPreviousOutput ==
    \A obj \in Objects :
        LET output == payload_of(obj) IN
        \A p \in 0..(obj.size - 1) :
            output[p + 1] =
                IF p = 0 THEN Xor(rule_raw(obj.layer, 0), rule_mask(obj.layer, 0))
                ELSE Xor(Xor(rule_raw(obj.layer, p), output[p]),
                         rule_mask(obj.layer, p))

\* C2 (as claimed): the bytes under 'data' number exactly byte_count, which
\* is also the 'size' field.
C2_DataLengthIsSize ==
    \A obj \in Objects :
        /\ obj.size = FixInt(FixScale(layer_energy_of(obj.layer), base_size))
        /\ Len(obj.data) = obj.size

\* C2 (amended): 'size' is floor(base_size * exp(-alpha*i)) (1024 for layer 0,
\* 880 for layer 5, never 0), and 'data' holds the 72 header bytes followed
\* by 'size' synthesized bytes.
C2_DataLengthIsHeaderPlusSize ==
    \A obj \in Objects :
        /\ obj.size = FixInt(FixScale(layer_energy_of(obj.layer), base_size))
        /\ obj.layer = 0 => obj.size = 1024
        /\ obj.layer = 5 => obj.size = 880
        /\ obj.size > 0
        /\ Len(obj.data) = HeaderBytes + obj.size
        /\ Len(payload_of(obj)) = obj.size

C2_Witness ==
    \E obj \in Objects : obj.layer = 5 /\ Len(obj.data) = 952

\* C3 (as claimed): the checksum is the digest of the synthesized payload
\* bytes alone.
C3_ChecksumOfPayloadOnly ==
    \A obj \in Objects : obj.checksum = sha256(payload_of(obj))

\* C3 (amended): the checksum is the digest of the whole 'data' value, the
\* header bytes followed by the synthesized bytes, and so is not the digest
\* of the synthesized bytes alone.
C3_ChecksumOfData ==
    \A obj \in Objects :
        /\ obj.checksum = sha256(obj.data)
        /\ SubSeq(obj.checksum.of, 1, Len(OLE2Signature)) = OLE2Signature
        /\ obj.checksum # sha256(payload_of(obj))

C3_Witness ==
    \E obj \in Objects : obj.layer = layers - 1 /\ Len(obj.checksum.of) > obj.size

\* C4 (as claimed): the header is 44 bytes long.
C4_HeaderIs44Bytes == o_header # <<>> => Len(o_header) = 44

\* C4 (amended): the header is 72 bytes long (8 + 16 + 4*2 + 10*4), for
\* every layer index.
C4_HeaderIs72Bytes == o_header # <<>> => Len(o_header) = 72

C4_Witness == o_header # <<>> /\ o_layer = layers - 1

\* the n-th 32-bit field of a header, n counted from 0, as <<high, low>>
header_field(h, n) ==
    LET at == 8 + 16 + 4 * 2 + 4 * n IN
    <<h[at + 3] + 256 * h[at + 4], h[at + 1] + 256 * h[at + 2]>>

\* the same as a number, for a field below 2^31
header_field_value(h, n) == header_field(h, n)[1] * 65536 + header_field(h, n)[2]

\* C5 (as claimed): total_sectors and total_sectors // 2 are among the
\* fields, with header_field_8 == header_field_7 // 2 (counting the fields
\* from 1 or from 0), and so are the layer index and floor(alpha * 1e6).
C5_Field8IsHalfField7 ==
    o_header # <<>> =>
        /\ \E n \in 0..9 : header_field(o_header, n) = Word32(total_sectors_of(o_layer))
        /\ \E n \in 0..9 : header_field(o_header, n) = Word32(o_layer)
        /\ \E n \in 0..9 : header_field(o_header, n) = Word32(alpha_micro)
        /\ \/ header_field_value(o_header, 8) = header_field_value(o_header, 7) \div 2
           \/ header_field_value(o_header, 7) = header_field_value(o_header, 6) \div 2

\* C5 (amended): counting the ten 32-bit fields from 0, field 0 is
\* total_sectors = floor(4096 * exp(-alpha*i)), field 7 is field 0 // 2,
\* field 8 is the layer index i and field 9 is floor(alpha * 1e6) = 30201.
C5_Field7IsHalfField0 ==
    o_header # <<>> =>
        /\ header_field(o_header, 0) = Word32(FixInt(FixScale(layer_energy_of(o_layer), 4096)))
        /\ o_layer = 0 => header_field_value(o_header, 0) = 4096
        /\ o_layer = 5 => header_field_value(o_header, 0) = 3521
        /\ header_field_value(o_header, 7) = header_field_value(o_header, 0) \div 2
        /\ header_field_value(o_header, 8) = o_layer
        /\ header_field_value(o_header, 9) = 30201

C5_Witness ==
    /\ o_header # <<>>
    /\ o_layer = 5
    /\ header_field_value(o_header, 7) = 1760

\* C6: two objects created for the same layer at different clock readings
\* have the same 'data' (header bytes and synthesized bytes), 'size' and
\* 'checksum'; the header bytes are those generate_vortex_ole_header returns.
C6_BytesIndependentOfClock ==
    \A a \in Objects :
        /\ \A b \in Objects :
              /\ a.data = b.data
              /\ a.size = b.size
              /\ a.checksum = b.checksum
        /\ o_header # <<>> => SubSeq(a.data, 1, Len(o_header)) = o_header

C6_Witness ==
    \E a \in Objects : \E b \in Objects :
        /\ a.temporal_offset # b.temporal_offset
        /\ a.timestamp # b.timestamp
        /\ a.data = b.data
        /\ o_header # <<>>

-----------------------------------------------------------------------------
(* Properties of build_sovereign_document (checked under Spec) *)

Returned == pc = "returned"
Failed == io_error # NoError

\* C8 (as claimed): a failure of the zip layer reaches the caller of
\* build_sovereign_document as the exception that was raised.
C8_FailurePropagates == (Returned /\ Failed) => raised = io_error

\* C8 (amended): a failure of the zip layer is caught inside
\* build_sovereign_document, which returns {'error': str(e)}; no exception
\* reaches the caller.
C8_FailureReturnedAsErrorDict ==
    /\ raised = NoError
    /\ (Returned /\ Failed) => result = [error |-> io_error.message]
    /\ (Returned /\ ~Failed) => "error" \notin DOMAIN result

C8_Witness ==
    /\ Returned
    /\ Failed
    /\ Len(archive) > Len(Boilerplate)
    /\ result = [error |-> "write failed"]

\* section 4.2 of the specification: output[p] = raw(p) XOR output[p-1] XOR
\* mask(p), output[0] = raw(0) XOR mask(0); positions first..last-1 are
\* appended to out, which holds positions 0..first-1
RECURSIVE rule_output(_, _, _, _)
rule_output(out, lyr, first, last) ==
    IF first >= last THEN out
    ELSE IF last = first + 1
         THEN Append(out,
                     Xor(IF first > 0 THEN Xor(rule_raw(lyr, first), out[first])
                         ELSE rule_raw(lyr, first),
                         rule_mask(lyr, first)))
    ELSE LET mid == (first + last) \div 2
             half == rule_output(out, lyr, first, mid)
         IN  IF Len(half) > 0 THEN rule_output(half, lyr, mid, last) ELSE half

\* synthesize(layer_index, byte_count, alpha) of section 4.2
synthesize(lyr) ==
    rule_output(<<>>, lyr, 0, FixInt(FixScale(layer_energy_of(lyr), base_size)))

BinEntries(lyr) == {k \in 1..Len(archive) : archive[k].name = bin_entry_name(lyr)}
XmlEntries(lyr) == {k \in 1..Len(archive) : archive[k].name = xml_entry_name(lyr)}

\* C9 (as claimed): after a successful build the archive holds one binary
\* entry per layer, and the entry of layer i reads back as the bytes the
\* synthesis rule gives for layer i.
C9_BinaryEntriesAreSynthesized ==
    (Returned /\ ~Failed) =>
        \A l \in 0..(RunLayers - 1) :
            /\ Cardinality(BinEntries(l)) = 1
            /\ \A k \in BinEntries(l) : archive[k].content = synthesize(l)

\* C10 (as claimed): create_temporal_ole_object runs once per layer, and the
\* XML descriptor of a layer shows the temporal offset and the timestamp of
\* the object appended to the run metadata.
C10_CreatedOncePerLayer ==
    \A l \in DOMAIN create_calls :
        /\ create_calls[l] <= 1
        /\ \A k \in XmlEntries(l) :
              /\ archive[k].content.offset.value =
                     document_metadata.ole_objects[l + 1].temporal_offset
              /\ archive[k].content.timestamp =
                     document_metadata.ole_objects[l + 1].timestamp

\* C10, the descriptor alone: the XML descriptor of a layer shows the
\* temporal offset and the timestamp of the object in the run metadata.
C10_DescriptorFromStoredObject ==
    \A l \in DOMAIN create_calls :
        \A k \in XmlEntries(l) :
            /\ archive[k].content.offset.value =
                   document_metadata.ole_objects[l + 1].temporal_offset
            /\ archive[k].content.timestamp =
                   document_metadata.ole_objects[l + 1].timestamp

ManifestEntries == {k \in 1..Len(archive) : archive[k].name = manifest_entry_name}

FinalKeys == {"total_energy", "efficiency", "completion_time"}

\* C11 (as claimed): the manifest entry is rendered from the finalized run
\* metadata: once it is in the archive, the metadata holds every layer
\* object, total_energy, efficiency and completion_time, and the entry
\* reports the total energy of the run.
C11_ManifestFromFinalizedMetadata ==
    \A k \in ManifestEntries :
        /\ Len(document_metadata.ole_objects) = RunLayers
        /\ FinalKeys \subseteq DOMAIN document_metadata
        /\ archive[k].content.total_energy.value = total_energy

\* C11, what line 270 renders: the metadata holds every layer object but
\* none of the keys set at lines 283-285, so the entry reports the defaults
\* of metadata.get: total energy 0, efficiency 0, completion "N/A".
C11_ManifestReportsDefaults ==
    \A k \in ManifestEntries :
        /\ Len(document_metadata.ole_objects) = RunLayers
        /\ archive[k].content.layer_lines =
               manifest_layer_lines(document_metadata.ole_objects)
        /\ archive[k].content.total_energy.value = Zero
        /\ archive[k].content.efficiency.value = Zero
        /\ archive[k].content.completed = "N/A"
        /\ total_energy # Zero

\* document_metadata['ole_objects'], empty before line 217
ole_objects == IF pc = "start" THEN <<>> ELSE document_metadata.ole_objects

\* the driver is at the head of an iteration, or past the loop
BetweenIterations == pc \in {"layer_object", "manifest", "finalize"}

\* the driver is inside the iteration of layer, after line 251
InIteration == pc \in {"layer_xml", "layer_bin"}

\* the objects are those of layers 0, 1, ... in this order, and their number
\* is the next layer index: layer between iterations, layer + 1 once the
\* object of the iteration in progress is appended
C12_LoopState ==
    /\ layer \in 0..RunLayers
    /\ \A k \in 1..Len(ole_objects) : ole_objects[k].layer = k - 1
    /\ Len(ole_objects) \in {layer, layer + 1}
    /\ BetweenIterations => Len(ole_objects) = layer
    /\ InIteration => Len(ole_objects) = layer + 1
    /\ \A l \in 0..(RunLayers - 1) :
          /\ Cardinality(XmlEntries(l)) <= 1
          /\ Cardinality(BinEntries(l)) <= 1
          /\ BinEntries(l) # {} => l < Len(ole_objects)
    /\ pc \in {"manifest", "finalize"} => layer = RunLayers
    /\ (Returned /\ ~Failed) =>
          /\ layer = RunLayers
          /\ Len(result.ole_objects) = RunLayers
          /\ \A k \in 1..RunLayers : result.ole_objects[k].layer = k - 1

\* the loop variable goes up by one at a time, and an object is appended
\* only at the head of an iteration, for the layer of that iteration
C12_LoopStep ==
    /\ layer' \in {layer, layer + 1}
    /\ ole_objects' # ole_objects =>
          /\ pc = "layer_object"
          /\ layer' = layer
          /\ Len(ole_objects') = Len(ole_objects) + 1
          /\ ole_objects'[layer + 1].layer = layer
          /\ SubSeq(ole_objects', 1, Len(ole_objects)) = ole_objects

====
